---- MODULE Spec2Model ----
(***************************************************************************)
(* Model of the dispatcher-sandbox tools of src/chat_assistant.py:         *)
(*   execute_modify_sandbox_order  (move an order between categories)      *)
(*   execute_check_feasibility     (capacity / time report for a KEEP add) *)
(*                                                                         *)
(* A sandbox is a Python dict from bucket key to a list of order dicts.    *)
(* An order dict is modelled as a function whose DOMAIN is the set of keys *)
(* the dict has, so that a missing key (dict.pop, dict.get default) is a   *)
(* key outside the domain.  An f-string message is modelled as a record    *)
(* carrying the message kind and the numbers the message prints.           *)
(***************************************************************************)
EXTENDS Integers, Sequences, FiniteSets, TLC

VARIABLES sandbox_data, valid_orders, time_matrix, service_times,
          vehicle_capacity, window_minutes, result,
          trip      \* history: the KEEP -> CANCEL -> KEEP round trip under way, if any

\* chat_with_assistant: its arguments api_key and messages, its locals, its position
\* (pc) and its return value.  During a call sandbox_data is the caller's dict and
\* updated_sandbox the copy of line 263.
VARIABLES api_key, messages, pc, api_messages, updated_sandbox,
          shared,            \* bucket keys whose list object both dicts refer to
          response, block_index, tool_results, tool_executions, returned,
          tool_rounds,       \* history: tool rounds completed (lines 330-334)
          sandbox_at_entry   \* history: the caller's sandbox when the call was made

driver == <<api_key, messages, pc, api_messages, updated_sandbox, shared, response,
            block_index, tool_results, tool_executions, returned, tool_rounds,
            sandbox_at_entry>>

vars == <<sandbox_data, valid_orders, time_matrix, service_times,
          vehicle_capacity, window_minutes, result, trip, driver>>

(***************************************************************************)
(* Values.  An order id is an int or a str in the data (order dicts) and a *)
(* str in a tool call; the code compares the str() of both.  An id value   *)
(* is written "<type>:<digits>" and Str gives its str().                   *)
(***************************************************************************)
Str(v) ==
    CASE v = "int:101"   -> "101"
      [] v = "str:101"   -> "101"
      [] v = "str:102"   -> "102"
      [] v = "str:103"   -> "103"
      [] v = "int:103"   -> "103"
      [] v = "str:99999" -> "99999"

\* mutant of Upper: the status is compared as it is spelled in the bucket key
UpperOmitted(s) == s

\* status.upper() and new_status.lower()
Upper(s) ==
    CASE s = "keep" -> "KEEP" [] s = "early" -> "EARLY"
      [] s = "reschedule" -> "RESCHEDULE" [] s = "cancel" -> "CANCEL"
      [] OTHER -> s

Lower(s) ==
    CASE s = "KEEP" -> "keep" [] s = "EARLY" -> "early"
      [] s = "RESCHEDULE" -> "reschedule" [] s = "CANCEL" -> "cancel"
      [] OTHER -> s

\* mutant of ModifyScan: the buckets are scanned from cancel to keep
ModifyScanReversed == <<"cancel", "reschedule", "early", "keep">>

\* the scan order of execute_modify_sandbox_order
ModifyScan == <<"keep", "early", "reschedule", "cancel">>
\* mutant of FeasibilityScan: the checker looks in the keep bucket first, like the mover
FeasibilityScanWithKeep == <<"keep", "early", "reschedule", "cancel">>

\* the scan order of execute_check_feasibility
FeasibilityScan == <<"early", "reschedule", "cancel">>

BucketKeys == {"keep", "early", "reschedule", "cancel"}
NewStatuses == {"KEEP", "EARLY", "RESCHEDULE", "CANCEL"}

(***************************************************************************)
(* dict helpers                                                            *)
(***************************************************************************)
\* d[k] = v
SetKey(d, k, v) == [f \in (DOMAIN d) \cup {k} |-> IF f = k THEN v ELSE d[f]]
\* d.pop(k, None) for every k in ks
PopKeys(d, ks) == [f \in (DOMAIN d) \ ks |-> d[f]]
\* d.get(k, default)
Get(d, k, default) == IF k \in DOMAIN d THEN d[k] ELSE default

\* sandbox_data.get(status, [])
Bucket(sb, status) == Get(sb, status, <<>>)

RECURSIVE SumUnits(_)
\* sum(o['units'] for o in orders)
SumUnits(orders) ==
    IF orders = <<>> THEN 0
    ELSE Head(orders).units + SumUnits(Tail(orders))

\* [o for o in orders if str(o['order_id']) != str(order_id)]
RECURSIVE RemoveId(_, _)
RemoveId(orders, order_id) ==
    IF orders = <<>> THEN <<>>
    ELSE IF Str(Head(orders).order_id) /= Str(order_id)
         THEN <<Head(orders)>> \o RemoveId(Tail(orders), order_id)
         ELSE RemoveId(Tail(orders), order_id)

\* mutant of FirstMatch: a loop that ends without a match keeps the last entry it looked at
RECURSIVE FirstMatchOrLast(_, _, _)
FirstMatchOrLast(orders, order_id, i) ==
    IF i > Len(orders) THEN Len(orders)
    ELSE IF Str(orders[i].order_id) = Str(order_id) THEN i
    ELSE FirstMatchOrLast(orders, order_id, i + 1)

\* index (1-based) of the first entry of orders whose str(order_id) matches, 0 if none
RECURSIVE FirstMatch(_, _, _)
FirstMatch(orders, order_id, i) ==
    IF i > Len(orders) THEN 0
    ELSE IF Str(orders[i].order_id) = Str(order_id) THEN i
    ELSE FirstMatch(orders, order_id, i + 1)

\* the nested for-loops with break: first bucket of scan, in scan order, holding a match
RECURSIVE FindOrder(_, _, _, _)
FindOrder(sb, order_id, scan, k) ==
    IF k > Len(scan) THEN [found |-> FALSE]
    ELSE LET i == FirstMatch(Bucket(sb, scan[k]), order_id, 1)
         IN IF i > 0
            THEN [found |-> TRUE, order |-> Bucket(sb, scan[k])[i], status |-> scan[k]]
            ELSE FindOrder(sb, order_id, scan, k + 1)

\* for idx, vo in enumerate(valid_orders): ... node = idx + 1 (0 stands for None)
CatalogNode(vos, order_id) == FirstMatch(vos, order_id, 1)

(***************************************************************************)
(* execute_modify_sandbox_order.  Returns [success, message, sandbox]; the *)
(* sandbox returned is the caller's dict object as the call left it.  The  *)
(* record also carries the local current_status (the category the order   *)
(* was found in, None when it was not found).                              *)
(***************************************************************************)
\* mutant of RemoveFromCategory: the old entry is left in its bucket
RemoveFromCategoryOmitted(sb, old_status_key, order_id) == sb

\* sandbox_data[old_status_key] = [o for o in ... if str(o['order_id']) != str(order_id)]
RemoveFromCategory(sb, old_status_key, order_id) ==
    SetKey(sb, old_status_key, RemoveId(sb[old_status_key], order_id))

\* order_copy = order_found.copy(); order_copy['reason'] = ...; order_copy['category'] = ...
PrepareCopy(order_found, reason, new_status) ==
    SetKey(SetKey(order_found, "reason", reason), "category", new_status)

\* mutant of AssignKeepFields: the sequence_index is counted from 1
AssignKeepFieldsOneBased(order_copy, node, sb) ==
    SetKey(SetKey(SetKey(order_copy, "node", node),
                  "sequence_index", Len(Bucket(sb, "keep")) + 1),
           "estimated_arrival", 0)

\* mutant of AssignKeepFields: the node is the 0-based catalog index
AssignKeepFieldsNodeZeroBased(order_copy, node, sb) ==
    SetKey(SetKey(SetKey(order_copy, "node", node - 1),
                  "sequence_index", Len(Bucket(sb, "keep"))),
           "estimated_arrival", 0)

\* the KEEP branch: node, sequence_index = len(current_keep), estimated_arrival = 0
AssignKeepFields(order_copy, node, sb) ==
    SetKey(SetKey(SetKey(order_copy, "node", node),
                  "sequence_index", Len(Bucket(sb, "keep"))),
           "estimated_arrival", 0)

\* mutant of StripKeepFields: estimated_arrival is not popped
StripKeepFieldsButArrival(order_copy) ==
    PopKeys(order_copy, {"node", "sequence_index"})

\* the non-KEEP branch: pop node, sequence_index, estimated_arrival
StripKeepFields(order_copy) ==
    PopKeys(order_copy, {"node", "sequence_index", "estimated_arrival"})

\* mutant of AppendToCategory: the copy is inserted at the head of the list
AppendToCategoryAtFront(sb, new_status_key, order_copy) ==
    SetKey(sb, new_status_key, <<order_copy>> \o Bucket(sb, new_status_key))

\* if key not in sandbox_data: sandbox_data[key] = []; sandbox_data[key].append(order_copy)
AppendToCategory(sb, new_status_key, order_copy) ==
    SetKey(sb, new_status_key, Append(Bucket(sb, new_status_key), order_copy))

\* mutant of ExceedsCapacity: the units already kept are not counted
ExceedsCapacityOrderAlone(current_units, order_units, capacity) ==
    order_units > capacity

\* mutant of ExceedsCapacity: a load equal to the capacity is rejected too
ExceedsCapacityAtLimit(current_units, order_units, capacity) ==
    current_units + order_units >= capacity

\* current_units + order_units > vehicle_capacity
ExceedsCapacity(current_units, order_units, capacity) ==
    current_units + order_units > capacity

\* mutant of KeepRejected: the window is enforced too, by the estimate of the checker
KeepRejectedByTimeToo(sb, order_found, vos, tm, capacity, window, st) ==
    LET node == CatalogNode(vos, order_found.order_id) IN
    \/ ExceedsCapacity(SumUnits(Bucket(sb, "keep")), order_found.units, capacity)
    \/ /\ node /= 0
       /\ tm[1][node + 1] * 2 + (IF node < Len(st) THEN st[node + 1] ELSE 3) > window

\* mutant of KeepRejected: the block is left out, no insertion is rejected
KeepRejectedNever(sb, order_found, vos, tm, capacity, window, st) == FALSE

\* the block "Check feasibility if moving to KEEP": of the inputs it is given, the
\* code reads the capacity alone
KeepRejected(sb, order_found, vos, tm, capacity, window, st) ==
    ExceedsCapacity(SumUnits(Bucket(sb, "keep")), order_found.units, capacity)

ExecuteModifySandboxOrder(order_id, new_status, reason, sb, vos, tm, capacity, window, st) ==
    LET f == FindOrder(sb, order_id, ModifyScan, 1) IN
    IF ~f.found
    THEN [success |-> FALSE, sandbox |-> sb, current_status |-> "None",
          message |-> [kind |-> "not_found", order_id |-> order_id]]
    ELSE
    LET order_found    == f.order
        current_status == Upper(f.status)
        current_units  == SumUnits(Bucket(sb, "keep"))
        order_units    == order_found.units
    IN
    IF current_status = new_status
    THEN [success |-> TRUE, sandbox |-> sb, current_status |-> current_status,
          message |-> [kind |-> "already", order_id |-> order_id, status |-> new_status]]
    ELSE IF new_status = "KEEP"
            /\ KeepRejected(sb, order_found, vos, tm, capacity, window, st)
    THEN [success |-> FALSE, sandbox |-> sb, current_status |-> current_status,
          message |-> [kind |-> "capacity", order_id |-> order_id,
                       overflow |-> (current_units + order_units) - capacity,
                       current_units |-> current_units, capacity |-> capacity]]
    ELSE
    LET old_status_key == Lower(current_status)
        removed        == RemoveFromCategory(sb, old_status_key, order_id)
        order_copy     == PrepareCopy(order_found, reason, new_status)
        node           == CatalogNode(vos, order_id)
    IN
    IF new_status = "KEEP" /\ node = 0
    THEN [success |-> FALSE, sandbox |-> removed, current_status |-> current_status,
          message |-> [kind |-> "not_in_catalog", order_id |-> order_id]]
    ELSE
    LET final_copy == IF new_status = "KEEP"
                      THEN AssignKeepFields(order_copy, node, removed)
                      ELSE StripKeepFields(order_copy)
    IN [success |-> TRUE, current_status |-> current_status,
        sandbox |-> AppendToCategory(removed, Lower(new_status), final_copy),
        message |-> [kind |-> "moved", order_id |-> order_id, status |-> new_status,
                     reason |-> reason]]

(***************************************************************************)
(* execute_check_feasibility.  Returns [report, sandbox]: the report text  *)
(* and the caller's sandbox dict as the call left it.                      *)
(***************************************************************************)
\* sorted(keep_orders, key=lambda x: x.get('sequence_index', 0)): a stable sort
SortKey(o) == Get(o, "sequence_index", 0)

RECURSIVE InsertSorted(_, _)
\* insert o behind every element whose key is <= its own (keeps equal keys in input order)
InsertSorted(sorted, o) ==
    IF sorted = <<>> THEN <<o>>
    ELSE IF SortKey(Head(sorted)) <= SortKey(o)
         THEN <<Head(sorted)>> \o InsertSorted(Tail(sorted), o)
         ELSE <<o>> \o sorted

RECURSIVE SortedKeep(_)
SortedKeep(orders) ==
    IF orders = <<>> THEN <<>>
    ELSE InsertSorted(SortedKeep(SubSeq(orders, 1, Len(orders) - 1)), orders[Len(orders)])

\* time_matrix[i][j] and service_times[node], 0-based as in the source
TravelTime(tm, i, j) == tm[i + 1][j + 1]
ServiceAt(st, node) == st[node + 1]

RECURSIVE LegsTime(_, _, _)
\* sum of time_matrix[nodes[i]][nodes[i + 1]] for i in range(len(nodes) - 1)
LegsTime(tm, nodes, i) ==
    IF i >= Len(nodes) THEN 0
    ELSE TravelTime(tm, nodes[i], nodes[i + 1]) + LegsTime(tm, nodes, i + 1)

RECURSIVE KeptServiceTimeDefaultThree(_, _)
\* mutant of KeptServiceTime: a kept node without a service time counts 3 minutes
KeptServiceTimeDefaultThree(st, nodes) ==
    IF nodes = <<>> THEN 0
    ELSE (IF Head(nodes) < Len(st) THEN ServiceAt(st, Head(nodes)) ELSE 3)
         + KeptServiceTimeDefaultThree(st, Tail(nodes))

RECURSIVE KeptServiceTime(_, _)
\* for o in sorted_keep: if node < len(service_times): current_time += service_times[node]
KeptServiceTime(st, nodes) ==
    IF nodes = <<>> THEN 0
    ELSE (IF Head(nodes) < Len(st) THEN ServiceAt(st, Head(nodes)) ELSE 0)
         + KeptServiceTime(st, Tail(nodes))

\* mutant of KeepListAfterSort: list.sort() orders the bucket list itself
KeepListSortedInPlace(keep_orders) == SortedKeep(keep_orders)

\* sorted() builds a new list: the bucket list it was given keeps its order
KeepListAfterSort(keep_orders) == keep_orders

CurrentRouteTime(keep_orders, tm, st) ==
    IF keep_orders = <<>> THEN 0
    ELSE LET sorted_keep == SortedKeep(keep_orders)
             nodes == [i \in 1..Len(sorted_keep) |-> sorted_keep[i].node]
         IN TravelTime(tm, 0, nodes[1]) + LegsTime(tm, nodes, 1)
            + TravelTime(tm, nodes[Len(nodes)], 0) + KeptServiceTime(st, nodes)

\* mutant of EstimatedTime: the way back to the depot is not counted
EstimatedTimeOneWay(tm, st, order_node) ==
    TravelTime(tm, 0, order_node)
    + (IF order_node < Len(st) THEN ServiceAt(st, order_node) ELSE 3)

\* depot_distance * 2 + (service_times[order_node] if order_node < len(service_times) else 3)
EstimatedTime(tm, st, order_node) ==
    TravelTime(tm, 0, order_node) * 2
    + (IF order_node < Len(st) THEN ServiceAt(st, order_node) ELSE 3)

\* mutant of Verdict: the elif tests time_ok, so time decides before capacity
VerdictTimeFirst(capacity_ok, time_ok) ==
    IF capacity_ok /\ time_ok THEN "FEASIBLE"
    ELSE IF time_ok THEN "NOT_FEASIBLE"
    ELSE "QUESTIONABLE"

\* the if / elif / else on capacity_ok and time_ok
Verdict(capacity_ok, time_ok) ==
    IF capacity_ok /\ time_ok THEN "FEASIBLE"
    ELSE IF capacity_ok THEN "QUESTIONABLE"
    ELSE "NOT_FEASIBLE"

ExecuteCheckFeasibility(order_id, sb, vos, tm, capacity, window, st) ==
    LET f == FindOrder(sb, order_id, FeasibilityScan, 1) IN
    IF ~f.found
    THEN [sandbox |-> sb,
          report |-> IF FirstMatch(Bucket(sb, "keep"), order_id, 1) > 0
                     THEN [kind |-> "already_kept", order_id |-> order_id]
                     ELSE [kind |-> "not_found", order_id |-> order_id]]
    ELSE
    LET current_units      == SumUnits(Bucket(sb, "keep"))
        order_units        == f.order.units
        remaining_capacity == capacity - current_units
        current_time       == CurrentRouteTime(Bucket(sb, "keep"), tm, st)
        remaining_time     == window - current_time
        capacity_ok        == order_units <= remaining_capacity
        order_node         == CatalogNode(vos, order_id)
        estimated_time     == IF order_node /= 0 THEN EstimatedTime(tm, st, order_node) ELSE -1
        time_ok            == IF order_node /= 0 THEN estimated_time <= remaining_time ELSE FALSE
    IN [sandbox |-> IF Bucket(sb, "keep") = <<>> THEN sb
                    ELSE SetKey(sb, "keep", KeepListAfterSort(sb["keep"])),
        report |-> [kind |-> "verdict", order_id |-> order_id,
                    verdict |-> Verdict(capacity_ok, time_ok),
                    capacity_ok |-> capacity_ok, time_ok |-> time_ok,
                    order_units |-> order_units,
                    current_units |-> current_units,
                    remaining_capacity |-> remaining_capacity,
                    node_found |-> (order_node /= 0),
                    estimated_time |-> estimated_time,
                    current_time |-> current_time,
                    remaining_time |-> remaining_time]]

(***************************************************************************)
(* Inputs.  Three orders are in the sandbox; a tool call names one of them *)
(* or an id that is in no bucket.  The catalog (valid_orders) lists them   *)
(* all and the absent id, or lacks order 103.                              *)
(***************************************************************************)
Order101 == [order_id |-> "int:101", units |-> 50]
Order102 == [order_id |-> "str:102", units |-> 45]
Order103 == [order_id |-> "str:103", units |-> 10]
Order99999 == [order_id |-> "str:99999", units |-> 5]

SandboxOrders == <<Order101, Order102, Order103>>
SandboxIds == {"int:101", "str:102", "str:103"}
CallIds == {"str:101", "str:102", "str:103", "str:99999"}
Reasons == {"dispatcher asked"}

Catalogs == { <<Order101, Order102, Order103, Order99999>>,
              <<Order101, Order102>> }
Capacities == {100, 105}
TimeMatrices == { << <<0, 10, 8, 11, 6>>,
                     <<12, 0, 4, 7, 9>>,
                     <<9, 5, 0, 3, 8>>,
                     <<11, 6, 2, 0, 5>>,
                     <<7, 9, 8, 4, 0>> >> }
\* (window_minutes, service_times): a tight window with a short service-time list,
\* a wide window with one entry per node
TimeInputs == { [window |-> 47, service_times |-> <<0, 5, 5>>],
                [window |-> 120, service_times |-> <<0, 5, 5, 4, 4>>] }

\* the orders that assignment a puts in bucket k, in catalog order
AssignedTo(a, k) == SelectSeq(SandboxOrders, LAMBDA o : a[o.order_id] = k)

\* the orderings of the elements of a sequence
Orderings(seq) ==
    { [i \in 1..Len(seq) |-> seq[q[i]]] :
        q \in { r \in [1..Len(seq) -> 1..Len(seq)] :
                  \A i, j \in 1..Len(seq) : r[i] = r[j] => i = j } }

\* an entry as the routing run hands it over: only KEEP entries carry the route fields
InitialEntry(o, k, pos, vos) ==
    IF k = "keep"
    THEN [order_id |-> o.order_id, units |-> o.units, category |-> "KEEP",
          reason |-> "optimizer", node |-> CatalogNode(vos, o.order_id),
          sequence_index |-> pos - 1, estimated_arrival |-> 10 * pos]
    ELSE [order_id |-> o.order_id, units |-> o.units, category |-> Upper(k),
          reason |-> "optimizer"]

InitialBucket(seq, k, vos) == [i \in 1..Len(seq) |-> InitialEntry(seq[i], k, i, vos)]

\* a partition of the orders over the four buckets, as the routing run hands it over
\* (its keep bucket is within the vehicle capacity, see Init)
InitialSandbox(a, keepSeq, vos) ==
    [k \in BucketKeys |-> IF k = "keep" THEN InitialBucket(keepSeq, k, vos)
                          ELSE InitialBucket(AssignedTo(a, k), k, vos)]

(***************************************************************************)
(* History of the last two calls, kept for the round-trip property: a      *)
(* successful KEEP -> CANCEL move of an order opens a trip (remembering    *)
(* the sequence_index the order had), a successful move of the same order  *)
(* to KEEP as the very next call completes it, any other call ends it.     *)
(***************************************************************************)
NoTrip == [stage |-> "none"]

TripAfterModify(t, sb, order_id, new_status, r) ==
    IF r.message.kind = "moved" /\ r.current_status = "KEEP" /\ new_status = "CANCEL"
    THEN [stage |-> "cancelled", order_id |-> Str(order_id),
          sequence_index |-> FindOrder(sb, order_id, ModifyScan, 1).order.sequence_index]
    ELSE IF /\ r.message.kind = "moved" /\ new_status = "KEEP"
            /\ t.stage = "cancelled" /\ t.order_id = Str(order_id)
    THEN [stage |-> "restored", order_id |-> t.order_id,
          sequence_index |-> t.sequence_index]
    ELSE NoTrip

\* Python's None, where a dict or an object is expected
None == [none |-> TRUE]

\* no chat_with_assistant call is under way: the tools are called directly
DriverIdle ==
    /\ api_key = None /\ messages = <<>> /\ pc = "idle" /\ api_messages = <<>>
    /\ updated_sandbox = None /\ shared = {} /\ response = None /\ block_index = 0
    /\ tool_results = <<>> /\ tool_executions = <<>> /\ returned = None
    /\ tool_rounds = 0 /\ sandbox_at_entry = None

Init ==
    \E vos \in Catalogs, capacity \in Capacities, tm \in TimeMatrices, ti \in TimeInputs,
       a \in [SandboxIds -> BucketKeys] :
      \E keepSeq \in Orderings(AssignedTo(a, "keep")) :
        /\ \A i \in 1..Len(keepSeq) : CatalogNode(vos, keepSeq[i].order_id) /= 0
        /\ SumUnits(keepSeq) <= capacity
        /\ sandbox_data = InitialSandbox(a, keepSeq, vos)
        /\ valid_orders = vos
        /\ time_matrix = tm
        /\ service_times = ti.service_times
        /\ vehicle_capacity = capacity
        /\ window_minutes = ti.window
        /\ result = [op |-> "none"]
        /\ trip = NoTrip
        /\ DriverIdle

inputs == <<valid_orders, time_matrix, service_times, vehicle_capacity, window_minutes>>

\* a tool call modify_sandbox_order(order_id, new_status, reason)
ModifySandboxOrder ==
    \E order_id \in CallIds, new_status \in NewStatuses, reason \in Reasons :
      \E r \in {ExecuteModifySandboxOrder(order_id, new_status, reason, sandbox_data,
                                           valid_orders, time_matrix, vehicle_capacity,
                                           window_minutes, service_times)} :
         /\ sandbox_data' = r.sandbox
         /\ result' = [op |-> "modify", order_id |-> order_id, new_status |-> new_status,
                       reason |-> reason, success |-> r.success, message |-> r.message,
                       current_status |-> r.current_status]
         /\ trip' = TripAfterModify(trip, sandbox_data, order_id, new_status, r)
         /\ UNCHANGED <<inputs, driver>>

\* a tool call check_order_feasibility(order_id)
CheckOrderFeasibility ==
    \E order_id \in CallIds :
      \E r \in {ExecuteCheckFeasibility(order_id, sandbox_data, valid_orders, time_matrix,
                                         vehicle_capacity, window_minutes, service_times)} :
         /\ sandbox_data' = r.sandbox
         /\ result' = [op |-> "check", order_id |-> order_id, report |-> r.report]
         /\ trip' = NoTrip
         /\ UNCHANGED <<inputs, driver>>

Next == ModifySandboxOrder \/ CheckOrderFeasibility

Spec == Init /\ [][Next]_vars

(***************************************************************************)
(* Sandboxes that break the uniqueness invariant: a partition as above     *)
(* plus a second entry for one order in another bucket, its order_id of    *)
(* the other type where the inputs have one.  The tools accept them; the   *)
(* scan order decides which entry a call acts on.                          *)
(***************************************************************************)
OtherIdOf(id) ==
    CASE id = "int:101" -> "str:101"
      [] id = "str:103" -> "int:103"
      [] OTHER -> id

\* sb with a second entry for order o appended to bucket k
WithDuplicate(sb, o, k, vos) ==
    SetKey(sb, k,
           Append(sb[k], InitialEntry([order_id |-> OtherIdOf(o.order_id), units |-> o.units],
                                      k, Len(sb[k]) + 1, vos)))

InitDuplicates ==
    \E vos \in {SandboxOrders}, ti \in {t \in TimeInputs : t.window = 120},
       a \in [SandboxIds -> {"early", "cancel"}] :
      \E keepSeq \in Orderings(AssignedTo(a, "keep")), d \in {1, Len(SandboxOrders)},
         k \in BucketKeys :
        /\ \A i \in 1..Len(keepSeq) : CatalogNode(vos, keepSeq[i].order_id) /= 0
        /\ k /= a[SandboxOrders[d].order_id]
        /\ k = "keep" => CatalogNode(vos, SandboxOrders[d].order_id) /= 0
        /\ sandbox_data = WithDuplicate(InitialSandbox(a, keepSeq, vos), SandboxOrders[d], k, vos)
        /\ valid_orders = vos
        /\ time_matrix \in TimeMatrices
        /\ service_times = ti.service_times
        /\ vehicle_capacity = 100
        /\ window_minutes = ti.window
        /\ result = [op |-> "none"]
        /\ trip = NoTrip
        /\ DriverIdle

SpecDuplicates == InitDuplicates /\ [][Next]_vars

(***************************************************************************)
(* chat_with_assistant (lines 211-346): the conversation driver.  It       *)
(* filters the message history, copies the caller's sandbox dict, and      *)
(* loops: one provider call, then either the tool round of the response    *)
(* (each tool_use block executed in order on the copy) or the return of    *)
(* the response's text.  The provider is the environment: each call raises *)
(* or answers with a tool round or with a final response.                  *)
(*                                                                         *)
(* dict.copy() is shallow: the copy's keys refer to the caller's lists.    *)
(* Line 500 gives the copy a new list for the source bucket; line 534      *)
(* appends in place, to a list the caller's dict may still refer to.       *)
(* Every call of the model supplies the five optional tool arguments, so   *)
(* tools_available (lines 257-259) holds.                                  *)
(***************************************************************************)
MaxToolRounds == 2

ApiKeys == {"sk-ant-key", "", "YOUR_ANTHROPIC_API_KEY_HERE"}

\* line 234
Configured(key) == key /= "" /\ key /= "YOUR_ANTHROPIC_API_KEY_HERE"

\* a text is a sequence of pieces, concatenation is \o
TextBlock(t) == [type |-> "text", text |-> t]

ToolUseBlock(id, name, input) ==
    [type |-> "tool_use", id |-> id, name |-> name, input |-> input]

\* a message of the input history; its str content is held as one text block
Message(role) == [role |-> role, content |-> <<TextBlock(<<role, "says">>)>>]

RoleSequences ==
    {<<>>, <<"user">>, <<"assistant">>,
     <<"user", "user">>, <<"user", "assistant">>, <<"assistant", "user">>,
     <<"assistant", "assistant">>, <<"assistant", "assistant", "user">>}

MessagesOf(roles) == [i \in 1..Len(roles) |-> Message(roles[i])]

\* lines 242-247: messages are skipped while api_messages is empty and the role is
\* assistant
RECURSIVE FilterMessages(_, _)
FilterMessages(msgs, acc) ==
    IF Len(msgs) = 0 THEN acc
    ELSE IF Len(acc) = 0 /\ Head(msgs).role = "assistant"
         THEN FilterMessages(Tail(msgs), acc)
         ELSE FilterMessages(Tail(msgs), Append(acc, Head(msgs)))

\* mutant of FinalText: the text of the first block alone
FinalTextFirstBlock(content) ==
    IF Len(content) > 0 /\ "text" \in DOMAIN Head(content) THEN Head(content).text ELSE <<>>

\* lines 338-341: the text of the blocks that have one, concatenated
RECURSIVE FinalText(_)
FinalText(content) ==
    IF Len(content) = 0 THEN <<>>
    ELSE (IF "text" \in DOMAIN Head(content) THEN Head(content).text ELSE <<>>)
         \o FinalText(Tail(content))

ModifyCall(order_id, new_status) ==
    [name |-> "modify_sandbox_order",
     input |-> [order_id |-> order_id, new_status |-> new_status,
                reason |-> "dispatcher asked"]]

CheckCall(order_id) ==
    [name |-> "check_order_feasibility", input |-> [order_id |-> order_id]]

ToolUseId(i) == <<"toolu", i>>

\* the content of a response: the text pieces and tool calls cs as blocks, each
\* tool_use block with an id of its own
ContentOf(cs) ==
    [i \in 1..Len(cs) |->
        IF "name" \in DOMAIN cs[i]
        THEN ToolUseBlock(ToolUseId(i), cs[i].name, cs[i].input)
        ELSE TextBlock(cs[i].text)]

Thinking == [text |-> <<"Let me do that.">>]

\* responses with stop_reason tool_use
ToolUseContents ==
    {ContentOf(cs) : cs \in
        {<<ModifyCall("str:103", "KEEP")>>,
         <<ModifyCall("str:103", "CANCEL")>>,
         <<ModifyCall("str:101", "RESCHEDULE")>>,
         <<Thinking, ModifyCall("str:103", "KEEP")>>,
         <<ModifyCall("str:103", "CANCEL"), ModifyCall("str:103", "KEEP")>>,
         <<CheckCall("str:103"), ModifyCall("str:103", "EARLY")>>}}

\* responses with another stop reason; a tool_use block in one is not executed
FinalResponses ==
    {[stop_reason |-> "end_turn", content |-> ContentOf(<<[text |-> <<"Done.">>]>>)],
     [stop_reason |-> "max_tokens",
      content |-> ContentOf(<<[text |-> <<"I will ">>], ModifyCall("str:103", "KEEP"),
                              [text |-> <<"move it.">>]>>)]}

ProviderErrors == {"overloaded_error"}

\* line 500 assigns a new list to the source bucket's key of the copy, which the
\* caller's dict does not refer to
SharedAfterModify(sh, r) ==
    IF r.message.kind \in {"moved", "not_in_catalog"}
    THEN sh \ {Lower(r.current_status)}
    ELSE sh

\* the caller's dict after a tool ran on the copy: a list both dicts refer to has the
\* copy's contents, any other list of the caller is as it was
CallerView(caller, copy, sh) ==
    [k \in DOMAIN caller |-> IF k \in sh THEN copy[k] ELSE caller[k]]

InitDriver ==
    \E vos \in Catalogs, ti \in {t \in TimeInputs : t.window = 120},
       a \in [SandboxIds -> BucketKeys], key \in ApiKeys, roles \in RoleSequences :
      \E keepSeq \in Orderings(AssignedTo(a, "keep")) :
        /\ a["int:101"] = "keep" /\ a["str:102"] = "early"
        /\ a["str:103"] \in {"early", "cancel"}
        /\ sandbox_data = InitialSandbox(a, keepSeq, vos)
        /\ valid_orders = vos
        /\ time_matrix \in TimeMatrices
        /\ service_times = ti.service_times
        /\ vehicle_capacity = 100
        /\ window_minutes = ti.window
        /\ result = [op |-> "none"]
        /\ trip = NoTrip
        /\ api_key = key /\ messages = MessagesOf(roles) /\ pc = "start"
        /\ api_messages = <<>> /\ updated_sandbox = None /\ shared = {}
        /\ response = None /\ block_index = 0 /\ tool_results = <<>>
        /\ tool_executions = <<>> /\ returned = None /\ tool_rounds = 0
        /\ sandbox_at_entry = sandbox_data

Return(text, sandbox, executions) ==
    [text |-> text, sandbox |-> sandbox, tool_executions |-> executions]

\* lines 234-263: up to the first provider call
Enter ==
    /\ pc = "start"
    /\ IF ~Configured(api_key)
       THEN /\ pc' = "unconfigured"
            /\ returned' = Return(<<"Chat assistant is not configured.">>, None, <<>>)
            /\ UNCHANGED <<api_messages, updated_sandbox, shared, tool_executions>>
       ELSE LET filtered == FilterMessages(messages, <<>>) IN
            IF Len(filtered) = 0
            THEN /\ pc' = "empty"
                 /\ returned' = Return(<<>>, None, <<>>)
                 /\ api_messages' = filtered
                 /\ UNCHANGED <<updated_sandbox, shared, tool_executions>>
            ELSE /\ pc' = "create"
                 /\ api_messages' = filtered
                 /\ tool_executions' = <<>>
                 /\ updated_sandbox' = sandbox_data
                 /\ shared' = DOMAIN sandbox_data
                 /\ UNCHANGED returned
    /\ UNCHANGED <<sandbox_data, inputs, result, trip, api_key, messages, response,
                   block_index, tool_results, tool_rounds, sandbox_at_entry>>

\* client.messages.create raises; lines 345-346
CreateRaises ==
    /\ pc = "create"
    /\ \E e \in ProviderErrors :
         returned' = Return(<<"Error communicating with AI assistant: ", e>>, None, <<>>)
    /\ pc' = "failed"
    /\ UNCHANGED <<sandbox_data, inputs, result, trip, api_key, messages, api_messages,
                   updated_sandbox, shared, response, block_index, tool_results,
                   tool_executions, tool_rounds, sandbox_at_entry>>

\* lines 268-286: the response asks for tools
CreateReturnsToolUse ==
    /\ pc = "create"
    /\ tool_rounds < MaxToolRounds
    /\ \E content \in ToolUseContents :
         response' = [stop_reason |-> "tool_use", content |-> content]
    /\ tool_results' = <<>>
    /\ block_index' = 1
    /\ pc' = "blocks"
    /\ UNCHANGED <<sandbox_data, inputs, result, trip, api_key, messages, api_messages,
                   updated_sandbox, shared, tool_executions, returned, tool_rounds,
                   sandbox_at_entry>>

\* lines 336-343: any other response ends the call
CreateReturnsText ==
    /\ pc = "create"
    /\ \E resp \in FinalResponses :
         /\ response' = resp
         /\ returned' = Return(FinalText(resp.content), updated_sandbox, tool_executions)
    /\ pc' = "done"
    /\ UNCHANGED <<sandbox_data, inputs, result, trip, api_key, messages, api_messages,
                   updated_sandbox, shared, block_index, tool_results, tool_executions,
                   tool_rounds, sandbox_at_entry>>

AtBlock ==
    /\ pc = "blocks"
    /\ block_index <= Len(response.content)

\* line 288: a block that is not a tool_use block is passed over
SkipBlock ==
    /\ AtBlock
    /\ response.content[block_index].type /= "tool_use"
    /\ block_index' = block_index + 1
    /\ UNCHANGED <<sandbox_data, inputs, result, trip, api_key, messages, pc,
                   api_messages, updated_sandbox, shared, response, tool_results,
                   tool_executions, returned, tool_rounds, sandbox_at_entry>>

\* mutant of DispatchModifySandboxOrder: the tool is run on the sandbox as it was when
\* the call was made, not as the preceding tool calls left it
DispatchModifyOnEntrySandbox ==
    /\ AtBlock
    /\ response.content[block_index].type = "tool_use"
    /\ response.content[block_index].name = "modify_sandbox_order"
    /\ LET block == response.content[block_index] IN
       \E r \in {ExecuteModifySandboxOrder(block.input.order_id, block.input.new_status,
                                           block.input.reason, sandbox_at_entry,
                                           valid_orders, time_matrix, vehicle_capacity,
                                           window_minutes, service_times)} :
         /\ updated_sandbox' = r.sandbox
         /\ tool_executions' = Append(tool_executions, r.message)
         /\ tool_results' = Append(tool_results,
                                   [type |-> "tool_result", tool_use_id |-> block.id,
                                    content |-> r.message])
    /\ block_index' = block_index + 1
    /\ UNCHANGED <<sandbox_data, inputs, result, trip, api_key, messages, pc, api_messages,
                   shared, response, returned, tool_rounds, sandbox_at_entry>>

\* lines 294-311
DispatchModifySandboxOrder ==
    /\ AtBlock
    /\ response.content[block_index].type = "tool_use"
    /\ response.content[block_index].name = "modify_sandbox_order"
    /\ LET block == response.content[block_index] IN
       \E r \in {ExecuteModifySandboxOrder(block.input.order_id, block.input.new_status,
                                           block.input.reason, updated_sandbox,
                                           valid_orders, time_matrix, vehicle_capacity,
                                           window_minutes, service_times)} :
         /\ updated_sandbox' = r.sandbox
         /\ shared' = SharedAfterModify(shared, r)
         /\ sandbox_data' = CallerView(sandbox_data, r.sandbox, shared')
         /\ tool_executions' = Append(tool_executions, r.message)
         /\ tool_results' = Append(tool_results,
                                   [type |-> "tool_result", tool_use_id |-> block.id,
                                    content |-> r.message])
    /\ block_index' = block_index + 1
    /\ UNCHANGED <<inputs, result, trip, api_key, messages, pc, api_messages, response,
                   returned, tool_rounds, sandbox_at_entry>>

\* lines 313-327
DispatchCheckOrderFeasibility ==
    /\ AtBlock
    /\ response.content[block_index].type = "tool_use"
    /\ response.content[block_index].name = "check_order_feasibility"
    /\ LET block == response.content[block_index] IN
       \E r \in {ExecuteCheckFeasibility(block.input.order_id, updated_sandbox,
                                         valid_orders, time_matrix, vehicle_capacity,
                                         window_minutes, service_times)} :
         /\ updated_sandbox' = r.sandbox
         /\ sandbox_data' = CallerView(sandbox_data, r.sandbox, shared)
         /\ tool_results' = Append(tool_results,
                                   [type |-> "tool_result", tool_use_id |-> block.id,
                                    content |-> r.report])
    /\ block_index' = block_index + 1
    /\ UNCHANGED <<inputs, result, trip, api_key, messages, pc, api_messages, shared,
                   response, tool_executions, returned, tool_rounds, sandbox_at_entry>>

\* lines 329-334: the round's two turns are appended and the loop continues
AppendTurns ==
    /\ pc = "blocks"
    /\ block_index > Len(response.content)
    /\ api_messages' = api_messages \o
                         <<[role |-> "assistant", content |-> response.content],
                           [role |-> "user", content |-> tool_results]>>
    /\ tool_rounds' = tool_rounds + 1
    /\ pc' = "create"
    /\ UNCHANGED <<sandbox_data, inputs, result, trip, api_key, messages,
                   updated_sandbox, shared, response, block_index, tool_results,
                   tool_executions, returned, sandbox_at_entry>>

NextDriver ==
    \/ Enter
    \/ CreateRaises
    \/ CreateReturnsToolUse
    \/ CreateReturnsText
    \/ SkipBlock
    \/ DispatchModifySandboxOrder
    \/ DispatchCheckOrderFeasibility
    \/ AppendTurns

SpecDriver == InitDriver /\ [][NextDriver]_vars

\* the driver's own statements run on: once a response has arrived its blocks are
\* worked through and the round's turns are appended.  Nothing is assumed of the
\* provider.
DriverStep ==
    \/ Enter
    \/ SkipBlock
    \/ DispatchModifySandboxOrder
    \/ DispatchCheckOrderFeasibility
    \/ AppendTurns

SpecDriverFair == SpecDriver /\ WF_vars(DriverStep)

TypeOK == result.op \in {"none", "modify", "check"}

(***************************************************************************)
(* Vocabulary of the properties                                            *)
(***************************************************************************)
\* the str() of the order ids held by bucket k of sandbox sb
IdsIn(sb, k) == { Str(Bucket(sb, k)[i].order_id) : i \in 1..Len(Bucket(sb, k)) }

InBucket(sb, k, order_id) == Str(order_id) \in IdsIn(sb, k)

InSomeBucket(sb, order_id) == \E k \in BucketKeys : InBucket(sb, k, order_id)

\* the units of the entry for order_id in one of EARLY, RESCHEDULE, CANCEL
DroppedUnits(sb, order_id) ==
    LET k == CHOOSE b \in {"early", "reschedule", "cancel"} : InBucket(sb, b, order_id)
        i == CHOOSE j \in 1..Len(sb[k]) : Str(sb[k][j].order_id) = Str(order_id)
    IN sb[k][i].units

InDropped(sb, order_id) ==
    \E b \in {"early", "reschedule", "cancel"} : InBucket(sb, b, order_id)

KeptUnits(sb) == SumUnits(Bucket(sb, "keep"))

\* the step is a modify_sandbox_order call / a check_order_feasibility call
ModifyStep == result'.op = "modify"
CheckStep == result'.op = "check"

(***************************************************************************)
(* C1: no order id occurs in more than one of the four buckets, after any  *)
(* sequence of move_order calls, successful or failed.                     *)
(***************************************************************************)
C1_UniqueAcrossBuckets ==
    \A k1, k2 \in BucketKeys :
        k1 /= k2 => IdsIn(sandbox_data, k1) \cap IdsIn(sandbox_data, k2) = {}

\* an order has just been moved from KEEP to EARLY
C1_Witness ==
    /\ result.op = "modify" /\ result.success
    /\ result.message.kind = "moved"
    /\ result.current_status = "KEEP" /\ result.new_status = "EARLY"
    /\ InBucket(sandbox_data, "early", result.order_id)

(***************************************************************************)
(* C2: after a successful move_order into KEEP that inserts the order, the *)
(* units of the keep bucket sum to at most the vehicle capacity.           *)
(***************************************************************************)
C2_KeepInsertionWithinCapacity ==
    (result.op = "modify" /\ result.success /\ result.new_status = "KEEP"
       /\ result.message.kind = "moved")
    => KeptUnits(sandbox_data) <= vehicle_capacity

\* an insertion that fills the vehicle exactly
C2_Witness ==
    /\ result.op = "modify" /\ result.success /\ result.new_status = "KEEP"
    /\ result.message.kind = "moved"
    /\ KeptUnits(sandbox_data) = vehicle_capacity

(***************************************************************************)
(* C3: the sequence_index values of the keep bucket are pairwise distinct  *)
(* and are exactly 0..n-1, n the size of the keep bucket, after every      *)
(* move_order call.                                                        *)
(***************************************************************************)
C3_KeepSequenceContiguous ==
    LET keep == Bucket(sandbox_data, "keep") IN
    /\ \A i \in 1..Len(keep) : "sequence_index" \in DOMAIN keep[i]
    /\ \A i, j \in 1..Len(keep) :
         keep[i].sequence_index = keep[j].sequence_index => i = j
    /\ { keep[i].sequence_index : i \in 1..Len(keep) } = 0..(Len(keep) - 1)

(***************************************************************************)
(* C4: every move_order call that returns success=false leaves the sandbox *)
(* exactly as it was before the call.                                      *)
(***************************************************************************)
C4_FailedMoveLeavesSandbox ==
    [][(ModifyStep /\ ~result'.success) => sandbox_data' = sandbox_data]_vars

(***************************************************************************)
(* C5, as claimed: a move_order to KEEP of an order in EARLY, RESCHEDULE   *)
(* or CANCEL returns success=false exactly when kept units + order units   *)
(* exceed the capacity; the overflow reported is that sum minus the        *)
(* capacity; the rejected call leaves the sandbox unchanged.               *)
(***************************************************************************)
MoveDroppedToKeep ==
    /\ ModifyStep /\ result'.new_status = "KEEP"
    /\ InDropped(sandbox_data, result'.order_id)
    /\ ~InBucket(sandbox_data, "keep", result'.order_id)

OverCapacity(order_id) ==
    KeptUnits(sandbox_data) + DroppedUnits(sandbox_data, order_id) > vehicle_capacity

C5_RejectedExactlyWhenOverCapacity ==
    [][MoveDroppedToKeep =>
         /\ (~result'.success) <=> OverCapacity(result'.order_id)
         /\ (~result'.success) =>
              /\ result'.message.kind = "capacity"
              /\ result'.message.overflow =
                   KeptUnits(sandbox_data) + DroppedUnits(sandbox_data, result'.order_id)
                     - vehicle_capacity
              /\ sandbox_data' = sandbox_data]_vars

(***************************************************************************)
(* C5, amended: such a call is rejected with the capacity-exceeded message *)
(* exactly when kept units + order units exceed the capacity (a call       *)
(* within capacity can still return success=false, for an order that is    *)
(* not in the catalog); the overflow reported is that sum minus the        *)
(* capacity; the capacity-rejected call leaves the sandbox unchanged.      *)
(***************************************************************************)
C5_CapacityRejectedExactlyWhenOverCapacity ==
    [][MoveDroppedToKeep =>
         /\ (result'.message.kind = "capacity") <=> OverCapacity(result'.order_id)
         /\ (result'.message.kind = "capacity") =>
              /\ ~result'.success
              /\ result'.message.overflow =
                   KeptUnits(sandbox_data) + DroppedUnits(sandbox_data, result'.order_id)
                     - vehicle_capacity
              /\ sandbox_data' = sandbox_data
         /\ (~result'.success) =>
              result'.message.kind \in {"capacity", "not_in_catalog"}]_vars

\* the example: capacity 100, kept units 95, order units 10, overflow 5
C5_Witness ==
    /\ result.op = "modify" /\ ~result.success /\ result.new_status = "KEEP"
    /\ result.message.kind = "capacity"
    /\ vehicle_capacity = 100 /\ KeptUnits(sandbox_data) = 95
    /\ DroppedUnits(sandbox_data, result.order_id) = 10
    /\ result.message.overflow = 5

(***************************************************************************)
(* C6: a move_order whose target category is the category the order is in  *)
(* returns success=true and leaves the whole sandbox unchanged.            *)
(***************************************************************************)
C6_MoveToOwnCategoryIsNoOp ==
    [][(ModifyStep /\ InBucket(sandbox_data, Lower(result'.new_status), result'.order_id))
         => (result'.success /\ sandbox_data' = sandbox_data)]_vars

\* the example: an order in EARLY moved to EARLY
C6_Witness ==
    /\ result.op = "modify" /\ result.success
    /\ result.message.kind = "already"
    /\ result.new_status = "EARLY"
    /\ InBucket(sandbox_data, "early", result.order_id)

(***************************************************************************)
(* C7: for an order id in none of the four buckets, check_feasibility      *)
(* returns the not-found report, move_order returns success=false with the *)
(* not-found message, and the sandbox is left unmodified, whatever the     *)
(* target category and whether or not the id is in the catalog.            *)
(***************************************************************************)
C7_AbsentIdNotFound ==
    [][((ModifyStep \/ CheckStep) /\ ~InSomeBucket(sandbox_data, result'.order_id))
         => /\ sandbox_data' = sandbox_data
            /\ ModifyStep => (~result'.success /\ result'.message.kind = "not_found")
            /\ CheckStep => result'.report.kind = "not_found"]_vars

\* move_order to KEEP of an id that is in the catalog and in no bucket
C7_Witness ==
    /\ result.op = "modify" /\ ~result.success
    /\ result.message.kind = "not_found"
    /\ result.new_status = "KEEP"
    /\ CatalogNode(valid_orders, result.order_id) /= 0
    /\ ~InSomeBucket(sandbox_data, result.order_id)

(***************************************************************************)
(* C8: every entry of the keep bucket carries node and sequence_index, and *)
(* no entry of the early, reschedule or cancel bucket carries node,        *)
(* sequence_index or estimated_arrival, after every move_order call.       *)
(***************************************************************************)
C8_RouteFieldsOnlyInKeep ==
    /\ \A i \in 1..Len(Bucket(sandbox_data, "keep")) :
         {"node", "sequence_index"} \subseteq DOMAIN sandbox_data["keep"][i]
    /\ \A k \in {"early", "reschedule", "cancel"} :
         \A i \in 1..Len(Bucket(sandbox_data, k)) :
           (DOMAIN sandbox_data[k][i])
             \cap {"node", "sequence_index", "estimated_arrival"} = {}

\* an order has just been moved out of KEEP into CANCEL
C8_Witness ==
    /\ result.op = "modify" /\ result.success
    /\ result.message.kind = "moved"
    /\ result.current_status = "KEEP" /\ result.new_status = "CANCEL"
    /\ InBucket(sandbox_data, "cancel", result.order_id)

(***************************************************************************)
(* C9: for an order found in EARLY, RESCHEDULE or CANCEL the verdict of    *)
(* check_feasibility is FEASIBLE when capacity_ok and time_ok,             *)
(* QUESTIONABLE when capacity_ok and not time_ok, NOT_FEASIBLE when not    *)
(* capacity_ok, with capacity_ok = (order units <= capacity - kept units)  *)
(* and time_ok = (estimated_time <= remaining_time).                       *)
(***************************************************************************)
C9_VerdictByCapacityThenTime ==
    (result.op = "check" /\ InDropped(sandbox_data, result.order_id)) =>
       LET rep == result.report
           capacity_ok == DroppedUnits(sandbox_data, result.order_id)
                            <= vehicle_capacity - KeptUnits(sandbox_data)
           time_ok == rep.node_found /\ rep.estimated_time <= rep.remaining_time
       IN /\ rep.kind = "verdict"
          /\ rep.capacity_ok = capacity_ok
          /\ rep.time_ok = time_ok
          /\ (capacity_ok /\ time_ok) => rep.verdict = "FEASIBLE"
          /\ (capacity_ok /\ ~time_ok) => rep.verdict = "QUESTIONABLE"
          /\ (~capacity_ok) => rep.verdict = "NOT_FEASIBLE"

\* the example: capacity 100, kept units 50, order units 10, remaining 20, estimate 25
C9_Witness ==
    /\ result.op = "check" /\ result.report.kind = "verdict"
    /\ vehicle_capacity = 100 /\ KeptUnits(sandbox_data) = 50
    /\ result.report.order_units = 10
    /\ result.report.remaining_time = 20 /\ result.report.estimated_time = 25
    /\ result.report.verdict = "QUESTIONABLE"

(***************************************************************************)
(* C10: check_feasibility never changes the sandbox, whichever report it   *)
(* returns.                                                                *)
(***************************************************************************)
C10_CheckLeavesSandbox ==
    [][CheckStep => sandbox_data' = sandbox_data]_vars

\* a verdict was reported while the keep list is not in sequence_index order
C10_Witness ==
    /\ result.op = "check" /\ result.report.kind = "verdict"
    /\ Bucket(sandbox_data, "keep") /= SortedKeep(Bucket(sandbox_data, "keep"))

(***************************************************************************)
(* C11: moving an order that is in KEEP to CANCEL and then, as the next    *)
(* call, back to KEEP ends with the order in the keep bucket, with         *)
(* category KEEP and with sequence_index equal to the number of orders in  *)
(* the keep bucket immediately before the re-insertion.                    *)
(***************************************************************************)
\* the entries of bucket k of sb for order_id
EntriesOf(sb, k, order_id) ==
    { i \in 1..Len(Bucket(sb, k)) : Str(sb[k][i].order_id) = Str(order_id) }

C11_RoundTripToTail ==
    [][(/\ trip.stage = "cancelled"
        /\ ModifyStep /\ result'.new_status = "KEEP"
        /\ Str(result'.order_id) = trip.order_id)
         => /\ result'.success
            /\ \E i \in 1..Len(Bucket(sandbox_data', "keep")) :
                 /\ EntriesOf(sandbox_data', "keep", result'.order_id) = {i}
                 /\ sandbox_data'["keep"][i].category = "KEEP"
                 /\ sandbox_data'["keep"][i].sequence_index
                      = Len(Bucket(sandbox_data, "keep"))
            /\ ~InDropped(sandbox_data', result'.order_id)]_vars

\* a completed round trip that put the order at another sequence_index than it had
C11_Witness ==
    /\ trip.stage = "restored"
    /\ \E i \in 1..Len(Bucket(sandbox_data, "keep")) :
         /\ Str(sandbox_data["keep"][i].order_id) = trip.order_id
         /\ sandbox_data["keep"][i].sequence_index /= trip.sequence_index

(***************************************************************************)
(* C15: whether a move_order to KEEP succeeds, and the sandbox it leaves,  *)
(* do not depend on the time matrix, the service times or the window: the  *)
(* same call on the same sandbox, catalog and capacity with other time     *)
(* inputs has the same success flag and resulting sandbox.                 *)
(***************************************************************************)
\* time inputs to compare with: longer legs, a window of one minute, no service times
OtherTimeMatrices ==
    TimeMatrices \cup { << <<0, 40, 40, 40, 40>>,
                           <<40, 0, 40, 40, 40>>,
                           <<40, 40, 0, 40, 40>>,
                           <<40, 40, 40, 0, 40>>,
                           <<40, 40, 40, 40, 0>> >> }
OtherTimeInputs == TimeInputs \cup { [window |-> 1, service_times |-> <<>>] }

C15_KeepMoveIgnoresTimeInputs ==
    [][(ModifyStep /\ result'.new_status = "KEEP") =>
         \A tm \in OtherTimeMatrices, ti \in OtherTimeInputs :
           \E r \in {ExecuteModifySandboxOrder(result'.order_id, "KEEP", result'.reason,
                                               sandbox_data, valid_orders, tm,
                                               vehicle_capacity, ti.window,
                                               ti.service_times)} :
              /\ r.success = result'.success
              /\ r.sandbox = sandbox_data']_vars

\* an order was added to KEEP although its round-trip estimate exceeded the time
\* the route had left before the move (the checker's time_ok was false)
C15_Witness ==
    /\ result.op = "modify" /\ result.success /\ result.new_status = "KEEP"
    /\ result.message.kind = "moved"
    /\ LET keep == sandbox_data["keep"]
           before == SubSeq(keep, 1, Len(keep) - 1)
       IN /\ Str(keep[Len(keep)].order_id) = Str(result.order_id)
          /\ EstimatedTime(time_matrix, service_times, keep[Len(keep)].node)
               > window_minutes - CurrentRouteTime(before, time_matrix, service_times)

(***************************************************************************)
(* C16: every order id that was in some bucket of the initial sandbox is   *)
(* still in some bucket after any sequence of move_order calls.            *)
(***************************************************************************)
C16_EveryOrderStaysInSandbox ==
    \A id \in SandboxIds : InSomeBucket(sandbox_data, id)

(***************************************************************************)
(* C17: a successful move_order of order X from category S to a different  *)
(* category T removes X from S, appends to the end of T one entry for X    *)
(* carrying the supplied reason and category T, and changes nothing else.  *)
(***************************************************************************)
\* the bucket that holds order_id
HolderOf(sb, order_id) == CHOOSE k \in BucketKeys : InBucket(sb, k, order_id)

\* the step is a successful move of an order to another category than it is in
MovedStep ==
    /\ ModifyStep /\ result'.success
    /\ InSomeBucket(sandbox_data, result'.order_id)
    /\ HolderOf(sandbox_data, result'.order_id) /= Lower(result'.new_status)

C17_MoveChangesSourceAndTargetOnly ==
    [][MovedStep =>
         LET X == result'.order_id
             S == HolderOf(sandbox_data, X)
             T == Lower(result'.new_status)
             target == sandbox_data'[T]
         IN /\ DOMAIN sandbox_data' = DOMAIN sandbox_data
            /\ sandbox_data'[S]
                 = SelectSeq(sandbox_data[S], LAMBDA o : Str(o.order_id) /= Str(X))
            /\ Len(sandbox_data'[S]) = Len(sandbox_data[S]) - 1
            /\ Len(target) = Len(sandbox_data[T]) + 1
            /\ SubSeq(target, 1, Len(target) - 1) = sandbox_data[T]
            /\ Str(target[Len(target)].order_id) = Str(X)
            /\ target[Len(target)].reason = result'.reason
            /\ target[Len(target)].category = result'.new_status
            /\ \A k \in BucketKeys \ {S, T} : sandbox_data'[k] = sandbox_data[k]]_vars

\* an order left EARLY, where another stays, for CANCEL, which held one already
C17_Witness ==
    /\ result.op = "modify" /\ result.success /\ result.message.kind = "moved"
    /\ result.current_status = "EARLY" /\ result.new_status = "CANCEL"
    /\ Len(sandbox_data["early"]) >= 1
    /\ Len(sandbox_data["cancel"]) >= 2
    /\ Str(sandbox_data["cancel"][Len(sandbox_data["cancel"])].order_id)
         = Str(result.order_id)

(***************************************************************************)
(* C18: on a successful move into KEEP the inserted entry has node equal   *)
(* to the order's 0-based position in the catalog plus one, sequence_index *)
(* equal to the length of the keep bucket before the append,               *)
(* estimated_arrival 0, and is the last element of the keep sequence.      *)
(***************************************************************************)
\* the 0-based position of the first catalog entry for order_id
CatalogPosition(vos, order_id) ==
    (CHOOSE i \in 1..Len(vos) :
        /\ Str(vos[i].order_id) = Str(order_id)
        /\ \A j \in 1..(i - 1) : Str(vos[j].order_id) /= Str(order_id)) - 1

C18_KeepInsertionFields ==
    [][(MovedStep /\ result'.new_status = "KEEP") =>
         LET keep == sandbox_data'["keep"]
             e == keep[Len(keep)]
         IN /\ Len(keep) = Len(sandbox_data["keep"]) + 1
            /\ Str(e.order_id) = Str(result'.order_id)
            /\ e.node = CatalogPosition(valid_orders, result'.order_id) + 1
            /\ e.sequence_index = Len(sandbox_data["keep"])
            /\ e.estimated_arrival = 0]_vars

\* order 103, third in the catalog, was appended behind one kept order
C18_Witness ==
    /\ result.op = "modify" /\ result.success /\ result.message.kind = "moved"
    /\ result.new_status = "KEEP" /\ Str(result.order_id) = "103"
    /\ Len(sandbox_data["keep"]) = 2
    /\ sandbox_data["keep"][2].node = 3
    /\ sandbox_data["keep"][2].sequence_index = 1
    /\ sandbox_data["keep"][2].estimated_arrival = 0

(***************************************************************************)
(* C19: check_feasibility returns the "already kept" report, with no       *)
(* capacity or time figures, when the order id is in the keep bucket, and  *)
(* the "not found" report exactly when the id is in none of the four       *)
(* buckets.                                                                *)
(***************************************************************************)
C19_AlreadyKeptAndNotFound ==
    result.op = "check" =>
      /\ InBucket(sandbox_data, "keep", result.order_id)
           => /\ result.report.kind = "already_kept"
              /\ DOMAIN result.report = {"kind", "order_id"}
      /\ (result.report.kind = "not_found")
           <=> ~InSomeBucket(sandbox_data, result.order_id)

\* the report for an order that is in the keep bucket
C19_Witness ==
    /\ result.op = "check" /\ result.report.kind = "already_kept"
    /\ InBucket(sandbox_data, "keep", result.order_id)
    /\ trip.stage = "none"

(***************************************************************************)
(* C20: move_order scans KEEP, EARLY, RESCHEDULE, CANCEL in that order and *)
(* acts on the first match: for an id present in several buckets the       *)
(* current category is the first of those buckets in scan order, only that *)
(* bucket loses its entry, and the entries for the id in later buckets are *)
(* left in place.                                                          *)
(***************************************************************************)
ScanRank(k) ==
    CASE k = "keep" -> 1 [] k = "early" -> 2 [] k = "reschedule" -> 3 [] k = "cancel" -> 4

\* the first bucket, in the order KEEP, EARLY, RESCHEDULE, CANCEL, that holds order_id
FirstHolder(sb, order_id) ==
    CHOOSE k \in BucketKeys :
        /\ InBucket(sb, k, order_id)
        /\ \A j \in BucketKeys : InBucket(sb, j, order_id) => ScanRank(k) <= ScanRank(j)

C20_FirstMatchInScanOrderWins ==
    [][(ModifyStep /\ InSomeBucket(sandbox_data, result'.order_id)) =>
         LET X == result'.order_id
             F == FirstHolder(sandbox_data, X)
             T == Lower(result'.new_status)
         IN /\ result'.current_status = Upper(F)
            /\ sandbox_data' /= sandbox_data => ~InBucket(sandbox_data', F, X)
            /\ \A k \in BucketKeys \ {F} :
                 IF k = T
                 THEN SubSeq(sandbox_data'[k], 1, Len(sandbox_data[k])) = sandbox_data[k]
                 ELSE sandbox_data'[k] = sandbox_data[k]]_vars

\* an order held by EARLY and by CANCEL was moved to RESCHEDULE: the EARLY entry is
\* gone, the CANCEL entry is still there
C20_Witness ==
    /\ result.op = "modify" /\ result.success /\ result.message.kind = "moved"
    /\ result.current_status = "EARLY" /\ result.new_status = "RESCHEDULE"
    /\ ~InBucket(sandbox_data, "early", result.order_id)
    /\ InBucket(sandbox_data, "reschedule", result.order_id)
    /\ InBucket(sandbox_data, "cancel", result.order_id)

(***************************************************************************)
(* C12: when a provider call fails during chat_with_assistant, also after  *)
(* tool calls of the same turn were executed, the failure is returned as a *)
(* text message and the caller's sandbox is as it was before the call,     *)
(* with every order in exactly one bucket.                                 *)
(***************************************************************************)
BucketsHolding(sb, id) == {k \in BucketKeys : InBucket(sb, k, id)}

C12_ProviderFailureLeavesCallerSandbox ==
    pc = "failed" =>
      /\ returned.sandbox = None
      /\ returned.tool_executions = <<>>
      /\ sandbox_data = sandbox_at_entry
      /\ \A id \in SandboxIds : Cardinality(BucketsHolding(sandbox_data, id)) = 1

(***************************************************************************)
(* C13: the tool-call loop is bounded: once the maximum number of tool     *)
(* rounds has been run the driver has stopped with the "assistant loop     *)
(* exceeded" condition and makes no further provider call.                 *)
(***************************************************************************)
C13_ToolLoopBounded ==
    tool_rounds >= MaxToolRounds => pc = "loop_exceeded"

(***************************************************************************)
(* C14: the history sent on a provider call starts with a user turn and    *)
(* strictly alternates the user and assistant roles.                       *)
(***************************************************************************)
StartsWithUser(ms) == Len(ms) > 0 /\ ms[1].role = "user"

Alternates(ms) == \A i \in 1..(Len(ms) - 1) : ms[i].role /= ms[i + 1].role

C14_HistoryStartsWithUserAndAlternates ==
    pc = "create" => StartsWithUser(api_messages) /\ Alternates(api_messages)

(***************************************************************************)
(* C23: for an order in EARLY, RESCHEDULE or CANCEL that is in the order   *)
(* catalog, the mutator and the checker agree on capacity in the same      *)
(* sandbox state: move_order to KEEP is rejected for capacity exactly when *)
(* check_feasibility reports capacity_ok false (verdict NOT_FEASIBLE), and *)
(* it succeeds exactly when the verdict is FEASIBLE or QUESTIONABLE.       *)
(***************************************************************************)
InCatalog(vos, order_id) == \E i \in 1..Len(vos) : Str(vos[i].order_id) = Str(order_id)

\* the report check_feasibility gives for order_id in the state the step starts from
CheckerReport(order_id) ==
    ExecuteCheckFeasibility(order_id, sandbox_data, valid_orders, time_matrix,
                            vehicle_capacity, window_minutes, service_times).report

C23_MutatorAndCheckerAgreeOnCapacity ==
    [][(/\ ModifyStep /\ result'.new_status = "KEEP"
        /\ InDropped(sandbox_data, result'.order_id)
        /\ InCatalog(valid_orders, result'.order_id)) =>
         LET rep == CheckerReport(result'.order_id) IN
           /\ rep.kind = "verdict"
           /\ (result'.message.kind = "capacity") <=> ~rep.capacity_ok
           /\ (~rep.capacity_ok) <=> (rep.verdict = "NOT_FEASIBLE")
           /\ result'.success <=> (rep.verdict \in {"FEASIBLE", "QUESTIONABLE"})]_vars

\* an insertion the checker calls QUESTIONABLE went through
C23_Witness ==
    /\ result.op = "modify" /\ result.success /\ result.message.kind = "moved"
    /\ result.new_status = "KEEP"
    /\ LET e == sandbox_data["keep"][Len(sandbox_data["keep"])] IN
         EstimatedTime(time_matrix, service_times, e.node)
           > window_minutes
             - CurrentRouteTime(SubSeq(sandbox_data["keep"], 1, Len(sandbox_data["keep"]) - 1),
                                time_matrix, service_times)

(***************************************************************************)
(* C24: check_feasibility computes current_route_time as 0 when the keep   *)
(* bucket is empty, and otherwise as travel(depot, first) + the travel     *)
(* times between consecutive nodes + travel(last, depot) along the keep    *)
(* orders in ascending sequence_index, plus the service time of each kept  *)
(* node, a node at or beyond the length of the service-time sequence       *)
(* contributing 0; remaining_time is the window minus that value.          *)
(***************************************************************************)
RECURSIVE SumFromTo(_, _, _)
SumFromTo(f, lo, hi) == IF lo > hi THEN 0 ELSE f[lo] + SumFromTo(f, lo + 1, hi)

\* the route depot, os[1].node, ..., os[Len(os)].node, depot and the service at its stops
RouteTimeAlong(os) ==
    LET path == <<0>> \o [i \in 1..Len(os) |-> os[i].node] \o <<0>>
        legs == [i \in 1..(Len(path) - 1) |-> time_matrix[path[i] + 1][path[i + 1] + 1]]
        stops == [i \in 1..Len(os) |->
                    IF os[i].node + 1 <= Len(service_times)
                    THEN service_times[os[i].node + 1] ELSE 0]
    IN SumFromTo(legs, 1, Len(legs)) + SumFromTo(stops, 1, Len(stops))

Ascending(os) ==
    \A i \in 1..(Len(os) - 1) : os[i].sequence_index <= os[i + 1].sequence_index

C24_CurrentRouteTime ==
    (result.op = "check" /\ result.report.kind = "verdict") =>
      LET keep == sandbox_data["keep"]
          rep == result.report
      IN /\ Len(keep) = 0 => rep.current_time = 0
         /\ Len(keep) > 0 =>
              \E os \in Orderings(keep) :
                 Ascending(os) /\ rep.current_time = RouteTimeAlong(os)
         /\ rep.remaining_time = window_minutes - rep.current_time

\* a report on a keep list that is not in sequence_index order and has a stop
\* without a service time
C24_Witness ==
    /\ result.op = "check" /\ result.report.kind = "verdict"
    /\ Len(sandbox_data["keep"]) >= 2
    /\ ~Ascending(sandbox_data["keep"])
    /\ \E i \in 1..Len(sandbox_data["keep"]) :
         sandbox_data["keep"][i].node >= Len(service_times)
    /\ result.report.current_time > 0

(***************************************************************************)
(* C25: for a candidate order in the catalog at node n = catalog index + 1 *)
(* check_feasibility uses estimated_time = 2 * travel(depot, n) +          *)
(* service_time(n), with service_time(n) = 3 when n is at or beyond the    *)
(* length of the service-time sequence, and time_ok = (estimated_time <=   *)
(* remaining_time); for an order that is not in the catalog time_ok is     *)
(* false and the verdict is never FEASIBLE.                                *)
(***************************************************************************)
C25_EstimatedTimeAndTimeOk ==
    (result.op = "check" /\ result.report.kind = "verdict") =>
      LET rep == result.report IN
      IF InCatalog(valid_orders, result.order_id)
      THEN LET n == CatalogPosition(valid_orders, result.order_id) + 1
               service_time == IF n + 1 <= Len(service_times)
                               THEN service_times[n + 1] ELSE 3
           IN /\ rep.estimated_time = 2 * time_matrix[1][n + 1] + service_time
              /\ rep.time_ok <=> (rep.estimated_time <= rep.remaining_time)
      ELSE /\ ~rep.time_ok
           /\ rep.verdict /= "FEASIBLE"

\* an estimate that used the default service time of 3 and still fits
C25_Witness ==
    /\ result.op = "check" /\ result.report.kind = "verdict"
    /\ InCatalog(valid_orders, result.order_id)
    /\ CatalogPosition(valid_orders, result.order_id) + 1 >= Len(service_times)
    /\ result.report.time_ok
    /\ result.report.verdict = "FEASIBLE"

\* a report on an order that is not in the catalog, within capacity
C25_WitnessNotInCatalog ==
    /\ result.op = "check" /\ result.report.kind = "verdict"
    /\ ~InCatalog(valid_orders, result.order_id)
    /\ result.report.capacity_ok
    /\ result.report.verdict = "QUESTIONABLE"

(***************************************************************************)
(* Vocabulary for the driver claims: the tool_use blocks and tool results  *)
(* of a history, and the tools run one after the other from a sandbox.     *)
(***************************************************************************)
ToolUsesOf(content) == SelectSeq(content, LAMBDA b : b.type = "tool_use")

ToolResultsOf(content) == SelectSeq(content, LAMBDA b : b.type = "tool_result")

RECURSIVE AllToolUses(_)
AllToolUses(ms) ==
    IF Len(ms) = 0 THEN <<>>
    ELSE ToolUsesOf(Head(ms).content) \o AllToolUses(Tail(ms))

RECURSIVE AllToolResults(_)
AllToolResults(ms) ==
    IF Len(ms) = 0 THEN <<>>
    ELSE ToolResultsOf(Head(ms).content) \o AllToolResults(Tail(ms))

\* one tool call on sandbox sb: the sandbox it leaves and the content it answers with
RunTool(b, sb) ==
    IF b.name = "modify_sandbox_order"
    THEN LET r == ExecuteModifySandboxOrder(b.input.order_id, b.input.new_status,
                                            b.input.reason, sb, valid_orders, time_matrix,
                                            vehicle_capacity, window_minutes, service_times)
         IN [sandbox |-> r.sandbox, content |-> r.message]
    ELSE LET r == ExecuteCheckFeasibility(b.input.order_id, sb, valid_orders, time_matrix,
                                          vehicle_capacity, window_minutes, service_times)
         IN [sandbox |-> r.sandbox, content |-> r.report]

\* the calls uses[i..] run in order, each on the sandbox its predecessor left
RECURSIVE RunInOrder(_, _, _)
RunInOrder(uses, i, sb) ==
    IF i > Len(uses) THEN [sandbox |-> sb, contents |-> <<>>]
    ELSE LET o == RunTool(uses[i], sb)
             rest == RunInOrder(uses, i + 1, o.sandbox)
         IN [sandbox |-> rest.sandbox, contents |-> <<o.content>> \o rest.contents]

\* the text pieces of the first n blocks of content, in block order
RECURSIVE TextOf(_, _)
TextOf(content, n) ==
    IF n = 0 THEN <<>>
    ELSE TextOf(content, n - 1)
         \o (IF content[n].type = "text" THEN content[n].text ELSE <<>>)

(***************************************************************************)
(* C21: a response that is not a tool invocation ends chat_with_assistant, *)
(* which returns that response's text and the sandbox as updated by all    *)
(* the tool calls executed so far; a tool-invocation response never ends   *)
(* it: its round is worked through and followed by another provider call.  *)
(***************************************************************************)
C21_ReturnsOnFirstNonToolResponse ==
    /\ [][(pc' = "done" /\ pc /= "done") =>
            /\ pc = "create"
            /\ response'.stop_reason /= "tool_use"
            /\ returned'.text = TextOf(response'.content, Len(response'.content))
            /\ returned'.sandbox
                 = RunInOrder(AllToolUses(api_messages), 1, sandbox_at_entry).sandbox]_vars
    /\ [][pc = "blocks" =>
            /\ response.stop_reason = "tool_use"
            /\ pc' \in {"blocks", "create"}
            /\ returned' = returned]_vars
    /\ [][pc = "done" => UNCHANGED vars]_vars
    /\ (pc = "blocks") ~> (pc = "create")

\* a return after a tool round that changed the sandbox, with a text of two pieces
C21_Witness ==
    /\ pc = "done"
    /\ tool_rounds >= 1
    /\ Len(returned.text) = 2
    /\ returned.sandbox /= sandbox_at_entry
    /\ Len(returned.tool_executions) >= 1

(***************************************************************************)
(* C22: in every tool round each tool_use block of the response is         *)
(* answered by exactly one tool result carrying the block's tool_use_id,   *)
(* the results are fed back in the order of the blocks, and the blocks are *)
(* executed one after the other in that order, each tool call on the       *)
(* sandbox as the preceding calls left it.                                 *)
(***************************************************************************)
\* the user turn behind an assistant turn answers that turn's tool_use blocks, in order
AnsweredInOrder(ms, i) ==
    LET uses == ToolUsesOf(ms[i].content) IN
    Len(uses) > 0 =>
      /\ i < Len(ms)
      /\ ms[i + 1].role = "user"
      /\ Len(ms[i + 1].content) = Len(uses)
      /\ \A j \in 1..Len(uses) :
           /\ ms[i + 1].content[j].type = "tool_result"
           /\ ms[i + 1].content[j].tool_use_id = uses[j].id

C22_ToolRoundAnswersEachBlockInOrder ==
    (pc = "create" /\ tool_rounds > 0) =>
      LET uses == AllToolUses(api_messages)
          results == AllToolResults(api_messages)
          run == RunInOrder(uses, 1, sandbox_at_entry)
      IN /\ \A i \in 1..Len(api_messages) : AnsweredInOrder(api_messages, i)
         /\ Len(results) = Len(uses)
         /\ \A j \in 1..Len(uses) : results[j].content = run.contents[j]
         /\ updated_sandbox = run.sandbox

\* a round of two tool calls on the same order, the second a success that the first
\* made possible (CANCEL, then KEEP of the cancelled order)
C22_Witness ==
    /\ pc = "create"
    /\ \E i \in 1..Len(api_messages) :
         LET uses == ToolUsesOf(api_messages[i].content) IN
           /\ Len(uses) = 2
           /\ uses[1].name = "modify_sandbox_order"
           /\ uses[2].name = "modify_sandbox_order"
           /\ uses[1].input.new_status = "CANCEL"
           /\ uses[2].input.new_status = "KEEP"
           /\ api_messages[i + 1].content[1].content.kind = "moved"
           /\ api_messages[i + 1].content[2].content.kind = "moved"
           /\ uses[1].input.order_id = uses[2].input.order_id

====
